---- MODULE Spec2Model ----
(***************************************************************************)
(* Treasury Intelligence Platform: the request handlers of                 *)
(* src/backend/server.py over the MongoDB collections they share.          *)
(*                                                                         *)
(* Money is held in integer cents (a float amount x is the integer 100*x), *)
(* and arithmetic is exact: an average is kept as the pair (sum, count)    *)
(* and compared by quotient and remainder.  round(x, 2) is rounding of the *)
(* exact value to a whole number of cents, ties to even.                   *)
(* A handler is a coroutine: it runs without interruption between two      *)
(* awaits, and every awaited database call is one atomic step.             *)
(***************************************************************************)
EXTENDS Integers, Sequences, FiniteSets, TLC

VARIABLES
    cash_balances,     \* db.cash_balances: sequence of balance documents
    netting_results,   \* db.netting_results: sequence of netting documents
    validation_logs,   \* db.validation_logs: sequence of validation documents
    cash_pools,        \* db.cash_pools: sequence of pool documents
    fx_rates,          \* db.fx_rates: sequence of rate documents
    pc,                \* pc[t]: where request t stands in its handler
    loc,               \* loc[t]: the local variables of request t's handler
    resp               \* resp[t]: the HTTP response request t returned

vars == <<cash_balances, netting_results, validation_logs, cash_pools,
          fx_rates, pc, loc, resp>>

(***************************************************************************)
(* Bounds of the model.                                                    *)
(***************************************************************************)
\* Longest cash_balances collection the concurrent specification builds.
MaxBalances == 2
\* Number of entities of the many-entity inputs of the netting specification.
MaxEntities == 5
\* Longest snapshot of the fine-amount inputs of the netting specification.
MaxFine == 3
\* Longest snapshot of the pool specification.
MaxPoolBalances == 2
\* Longest snapshot of the validation-check specification.
MaxValidated == 3
\* Longest snapshot of the position specification.
MaxPositionBalances == 3
\* Longest snapshot of the pool status and calculation specification.
MaxPooled == 3
\* Longest fx_rates collection the rate specification builds.
MaxRates == 2

\* The requests that can be in flight at once.
Tasks == {"t1", "t2"}

(***************************************************************************)
(* Generic helpers over sequences.                                         *)
(***************************************************************************)
\* All sequences over S of length at most n.
SeqsUpTo(S, n) == UNION {[1..k -> S] : k \in 0..n}

\* Python's seq[:n].
Take(s, n) == IF Len(s) <= n THEN s ELSE SubSeq(s, 1, n)

\* Python's sum(f(x) for x in s), for an integer-valued field amount.
RECURSIVE SumAmount(_)
SumAmount(s) == IF s = <<>> THEN 0 ELSE s[1].amount + SumAmount(Tail(s))

RECURSIVE SumUsd(_)
SumUsd(s) == IF s = <<>> THEN 0 ELSE s[1].balance_usd + SumUsd(Tail(s))

Min(a, b) == IF a <= b THEN a ELSE b

(***************************************************************************)
(* Exact arithmetic.  A non-integer amount of cents is the record          *)
(* [ip, num, den]: the value ip + num/den with 0 <= num < den.             *)
(***************************************************************************)
Frac(ip, num, den) == [ip |-> ip, num |-> num, den |-> den]

\* a < b for two values over the same denominator.
FracLess(a, b) == a.ip < b.ip \/ (a.ip = b.ip /\ a.num < b.num)

\* Python's min(a, b): the first argument unless the second is smaller.
FracMin(a, b) == IF FracLess(b, a) THEN b ELSE a

\* x > c for a whole number of cents c.
FracGreaterInt(x, c) == x.ip > c \/ (x.ip = c /\ x.num > 0)

\* Python's round(x, 2) of an amount held in cents: the nearest whole number
\* of cents, a tie going to the even one.
round2(x) ==
    IF 2 * x.num < x.den THEN x.ip
    ELSE IF 2 * x.num > x.den THEN x.ip + 1
    ELSE IF (x.ip % 2) = 0 THEN x.ip ELSE x.ip + 1

(***************************************************************************)
(* run_netting: the computation between the fetch of the balances and the  *)
(* insert of the results (server.py 578-609).                              *)
(***************************************************************************)
\* The factor 0.3 of line 599, as NettingFactorNum / NettingFactorDen.
NettingFactorNum == 3
NettingFactorDen == 10
\* The threshold 100000 of line 601, in cents.
NettingThreshold == 10000000
\* The slices [:3] of line 593 and [:2] of line 594.
DeficitLimit == 3
SurplusLimit == 2

\* A draw over every status NettingResult declares (line 103).
StatusChoicesDeclared == {"Settled", "Pending", "Failed"}

\* random.choice(["Settled", "Pending", "Settled", "Settled"]), line 608.
StatusChoices == {"Settled", "Pending"}

\* Lines 579-582: entity_balances, a dict in insertion order, as the sequence
\* of its items [entity, total].
RECURSIVE group_by_entity(_, _)
group_by_entity(balances, acc) ==
    IF balances = <<>> THEN acc
    ELSE LET b == Head(balances)
             hit == {i \in 1..Len(acc) : acc[i].entity = b.entity_code}
         IN  group_by_entity(Tail(balances),
                 IF hit = {}
                 THEN Append(acc, [entity |-> b.entity_code, total |-> 0 + b.balance_usd])
                 ELSE LET i == CHOOSE i \in hit : TRUE
                      IN  [acc EXCEPT ![i].total = @ + b.balance_usd])

entity_balances(balances) == group_by_entity(balances, <<>>)

RECURSIVE SumTotal(_)
SumTotal(eb) == IF eb = <<>> THEN 0 ELSE eb[1].total + SumTotal(Tail(eb))

\* v > sum/n and v < sum/n (lines 586-587), by quotient and remainder.
AboveAvg(v, sum, n) == v > (sum \div n)
BelowAvg(v, sum, n) == v < (sum \div n) \/ (v = (sum \div n) /\ (sum % n) > 0)

\* surplus_amount - avg_balance (line 598), for any v.
MinusAvg(v, sum, n) ==
    IF (sum % n) = 0 THEN Frac(v - (sum \div n), 0, n)
    ELSE Frac(v - (sum \div n) - 1, n - (sum % n), n)

\* abs(deficit_amount - avg_balance) (line 597).
AbsMinusAvg(v, sum, n) ==
    IF AboveAvg(v, sum, n) THEN MinusAvg(v, sum, n)
    ELSE Frac((sum \div n) - v, sum % n, n)

\* x * 0.3 (line 599): 3*ip = 10*a + b, so x * 3/10 = a + (b*den + 3*num)/(10*den).
TimesFactor(x) ==
    LET a  == (NettingFactorNum * x.ip) \div NettingFactorDen
        b  == (NettingFactorNum * x.ip) % NettingFactorDen
        nn == b * x.den + NettingFactorNum * x.num
        dd == NettingFactorDen * x.den
    IN  Frac(a + (nn \div dd), nn % dd, dd)

\* Lines 596-599 without the min: 30% of the excess of the surplus entity.
netting_amount_of_surplus(deficit_amount, surplus_amount, sum, n) ==
    TimesFactor(MinusAvg(surplus_amount, sum, n))

\* Lines 596-599.
netting_amount(deficit_amount, surplus_amount, sum, n) ==
    TimesFactor(FracMin(AbsMinusAvg(deficit_amount, sum, n),
                        MinusAvg(surplus_amount, sum, n)))

\* The comparison of line 601 as >=.
emits_at_threshold(amount) == amount.ip >= NettingThreshold

\* Line 601.
emits(amount) == FracGreaterInt(amount, NettingThreshold)

\* Line 586 with the comparison v >= avg_balance.
surplus_entities_from_average(eb) ==
    LET sum == SumTotal(eb)
        n   == Len(eb)
    IN  SelectSeq(eb, LAMBDA e : ~BelowAvg(e.total, sum, n))

\* Lines 585-587, avg_balance being sum / n.
surplus_entities(eb) ==
    LET sum == SumTotal(eb)
        n   == Len(eb)
    IN  SelectSeq(eb, LAMBDA e : AboveAvg(e.total, sum, n))

deficit_entities(eb) ==
    LET sum == SumTotal(eb)
        n   == Len(eb)
    IN  SelectSeq(eb, LAMBDA e : BelowAvg(e.total, sum, n))

\* The pairs of lines 593-594 without the slice [:3] of the deficit entities.
candidate_pairs_all_deficits(eb) ==
    LET ds == deficit_entities(eb)
        ss == Take(surplus_entities(eb), SurplusLimit)
        w  == Len(ss)
    IN  [k \in 1..(Len(ds) * w) |->
            [deficit |-> ds[((k - 1) \div w) + 1],
             surplus |-> ss[((k - 1) % w) + 1]]]

\* Lines 593-594: the candidate pairs, deficit-major and surplus-minor.
candidate_pairs(eb) ==
    LET ds == Take(deficit_entities(eb), DeficitLimit)
        ss == Take(surplus_entities(eb), SurplusLimit)
        w  == Len(ss)
    IN  [k \in 1..(Len(ds) * w) |->
            [deficit |-> ds[((k - 1) \div w) + 1],
             surplus |-> ss[((k - 1) % w) + 1]]]

\* The transactions of lines 593-609 with from_entity and to_entity exchanged.
netting_transactions_reversed(eb) ==
    LET sum  == SumTotal(eb)
        n    == Len(eb)
        amt(p) == netting_amount(p.deficit.total, p.surplus.total, sum, n)
        kept == SelectSeq(candidate_pairs(eb), LAMBDA p : emits(amt(p)))
    IN  [k \in 1..Len(kept) |->
            [from_entity |-> kept[k].deficit.entity,
             to_entity   |-> kept[k].surplus.entity,
             amount      |-> round2(amt(kept[k])),
             currency    |-> "USD"]]

\* Lines 593-609 without the date and the status draw: the emitted
\* transactions in order.
\* Defined for a non-empty eb only: line 585 divides by len(entity_balances).
netting_transactions(eb) ==
    LET sum  == SumTotal(eb)
        n    == Len(eb)
        amt(p) == netting_amount(p.deficit.total, p.surplus.total, sum, n)
        kept == SelectSeq(candidate_pairs(eb), LAMBDA p : emits(amt(p)))
    IN  [k \in 1..Len(kept) |->
            [from_entity |-> kept[k].surplus.entity,
             to_entity   |-> kept[k].deficit.entity,
             amount      |-> round2(amt(kept[k])),
             currency    |-> "USD"]]

\* Line 608 with the settled transactions ahead of the pending ones.
with_status_settled_first(txs, st) ==
    LET drawn == [k \in 1..Len(txs) |->
                    [from_entity |-> txs[k].from_entity,
                     to_entity |-> txs[k].to_entity,
                     amount |-> txs[k].amount, currency |-> txs[k].currency,
                     status |-> st[k]]]
    IN  SelectSeq(drawn, LAMBDA x : x.status = "Settled")
            \o SelectSeq(drawn, LAMBDA x : x.status /= "Settled")

\* Line 608: each emitted transaction gets a status of the draw.
with_status(txs, st) ==
    [k \in 1..Len(txs) |->
        [from_entity |-> txs[k].from_entity, to_entity |-> txs[k].to_entity,
         amount |-> txs[k].amount, currency |-> txs[k].currency,
         status |-> st[k]]]

\* Line 591: today, the date of the clock when the run computes: one of two
\* days.
Dates == {"d1", "d2"}

\* Line 603: each emitted transaction carries the date of the run.
with_date(results, today) ==
    [k \in 1..Len(results) |->
        [netting_date |-> today,
         from_entity |-> results[k].from_entity, to_entity |-> results[k].to_entity,
         amount |-> results[k].amount, currency |-> results[k].currency,
         status |-> results[k].status]]

(***************************************************************************)
(* Documents.  A balance document carries the fields of CashBalance        *)
(* (lines 59-68); balance_local is <<v>> for the number v and <<>> for     *)
(* null.  A currency pair "A/B" is the tuple <<A, B>>.                     *)
(***************************************************************************)
Some(v) == <<v>>
None == <<>>

Balance(account, date, currency, local, usd, entity, region) ==
    [account_number |-> account, balance_date |-> date, currency |-> currency,
     balance_local |-> local, balance_usd |-> usd, entity_code |-> entity,
     region |-> region]

\* A USD balance of an entity's single account.
UsdBalance(entity, usd) ==
    Balance(entity, "d1", "USD", Some(usd), usd, entity, "AMER")

(***************************************************************************)
(* Requests.  pc[t] is "idle" before a request, the name of the next       *)
(* awaited call while the handler runs, and "done" once it has returned;   *)
(* resp[t] is then the response.                                           *)
(***************************************************************************)
NoLocals == [op |-> "none"]
NoResponse == [op |-> "none", status_code |-> 0]

\* except Exception as e: raise HTTPException(status_code=500, detail=str(e))
InternalError(op, detail) == [op |-> op, status_code |-> 500, detail |-> detail]

Return(t, r) ==
    /\ pc' = [pc EXCEPT ![t] = "done"]
    /\ loc' = [loc EXCEPT ![t] = NoLocals]
    /\ resp' = [resp EXCEPT ![t] = r]

Goto(t, label, locals) ==
    /\ pc' = [pc EXCEPT ![t] = label]
    /\ loc' = [loc EXCEPT ![t] = locals]
    /\ UNCHANGED resp

\* The client takes the response; the connection serves its next request.
complete(t) ==
    /\ pc[t] = "done"
    /\ pc' = [pc EXCEPT ![t] = "idle"]
    /\ resp' = [resp EXCEPT ![t] = NoResponse]
    /\ UNCHANGED <<cash_balances, netting_results, validation_logs, cash_pools,
                   fx_rates, loc>>

(***************************************************************************)
(* POST /treasury/netting/run (lines 568-624).                             *)
(***************************************************************************)
\* Lines 615-621.
netting_response(today, results) ==
    [op |-> "run_netting", status_code |-> 200, status |-> "success",
     netting_date |-> today,
     total_transactions |-> Len(results),
     total_netted_usd |-> SumAmount(results),
     transactions |-> results]

\* Line 573 with the delete on db.cash_balances.
run_netting_delete_balances(t) ==
    /\ pc[t] = "idle"
    /\ cash_balances' = <<>>
    /\ Goto(t, "netting_find", [op |-> "run_netting", before |-> netting_results])
    /\ UNCHANGED <<netting_results, validation_logs, cash_pools, fx_rates>>

\* Line 573: await db.netting_results.delete_many({}).  The local "before" is
\* the collection as the run found it; the handler does not hold it.
run_netting_delete(t) ==
    /\ pc[t] = "idle"
    /\ netting_results' = <<>>
    /\ Goto(t, "netting_find", [op |-> "run_netting", before |-> netting_results])
    /\ UNCHANGED <<cash_balances, validation_logs, cash_pools, fx_rates>>

\* Lines 576-611: the fetch of the balances and all that follows up to the
\* next await.  With no entity, line 585 raises ZeroDivisionError; with no
\* transaction, the handler returns without another database call.
run_netting_find(t) ==
    /\ pc[t] = "netting_find"
    /\ LET eb == entity_balances(cash_balances)
       IN  IF Len(eb) = 0
           THEN Return(t, InternalError("run_netting", "ZeroDivisionError"))
           ELSE \E today \in Dates :
                  IF netting_transactions(eb) = <<>>
                  THEN Return(t, netting_response(today, <<>>))
                  ELSE Goto(t, "netting_insert",
                            [op |-> "run_netting", before |-> loc[t].before,
                             today |-> today,
                             transactions |-> netting_transactions(eb)])
    /\ UNCHANGED <<cash_balances, netting_results, validation_logs, cash_pools,
                   fx_rates>>

\* Line 613: await db.netting_results.insert_many(...), then the return.  The
\* status draws of line 608 are local to the handler until this insert, so
\* they are made here.
run_netting_insert(t) ==
    /\ pc[t] = "netting_insert"
    /\ \E st \in [1..Len(loc[t].transactions) -> StatusChoices] :
         LET results == with_date(with_status(loc[t].transactions, st),
                                  loc[t].today)
         IN  /\ netting_results' = netting_results \o results
             /\ Return(t, netting_response(loc[t].today, results))
    /\ UNCHANGED <<cash_balances, validation_logs, cash_pools, fx_rates>>

(***************************************************************************)
(* GET /treasury/netting/results (lines 626-654).                          *)
(***************************************************************************)
\* Lines 641-644: by_status, a dict from each status present to its count.
by_status(results) ==
    [s \in {results[i].status : i \in 1..Len(results)} |->
        Cardinality({i \in 1..Len(results) : results[i].status = s})]

\* Lines 632-651: the empty answer has the key total_netted, not
\* total_netted_usd.
netting_results_response(results) ==
    IF results = <<>>
    THEN [op |-> "get_netting_results", status_code |-> 200,
          total_transactions |-> 0, total_netted |-> 0,
          by_status |-> <<>>, transactions |-> <<>>]
    ELSE [op |-> "get_netting_results", status_code |-> 200,
          total_transactions |-> Len(results),
          total_netted_usd |-> SumAmount(results),
          by_status |-> by_status(results), transactions |-> results]

get_netting_results(t) ==
    /\ pc[t] = "idle"
    /\ Return(t, netting_results_response(netting_results))
    /\ UNCHANGED <<cash_balances, netting_results, validation_logs, cash_pools,
                   fx_rates>>

(***************************************************************************)
(* validate_data (lines 133-175).  A document may lack the field           *)
(* balance_local (the record then has no such field) or hold null in it    *)
(* (<<>>).  The result is [raised, logs]: line 151 compares balance_local  *)
(* with 0, which raises TypeError when it is null.                         *)
(***************************************************************************)
ValidationLog(check_type, severity, affected) ==
    [check_type |-> check_type, severity |-> severity,
     affected_records |-> affected, status |-> "Open"]

\* b.get('balance_local'): None when the field is absent.
get_balance_local(b) ==
    IF "balance_local" \in DOMAIN b THEN b.balance_local ELSE None

\* Line 139.
missing_count(balances) ==
    Cardinality({i \in 1..Len(balances) :
        get_balance_local(balances[i]) = None
            \/ get_balance_local(balances[i]) = Some(0)})

\* Line 151, when no balance_local is null: b.get('balance_local', 0) is 0
\* when the field is absent.
negative_count(balances) ==
    Cardinality({i \in 1..Len(balances) :
        "balance_local" \in DOMAIN balances[i] /\ balances[i].balance_local[1] < 0})

\* The count of line 164 as the number of records that share their
\* (account_number, balance_date) with another record.
duplicates_every_copy(balances) ==
    Cardinality({i \in 1..Len(balances) :
        \E j \in 1..Len(balances) :
            /\ j /= i
            /\ balances[j].account_number = balances[i].account_number
            /\ balances[j].balance_date = balances[i].balance_date})

\* Lines 163-164.
duplicates(balances) ==
    Len(balances)
        - Cardinality({<<balances[i].account_number, balances[i].balance_date>> :
                          i \in 1..Len(balances)})

\* validate_data with the negative_cash check before the missing_balance
\* check.
validate_data_negative_first(balances) ==
    IF \E i \in 1..Len(balances) :
          "balance_local" \in DOMAIN balances[i] /\ balances[i].balance_local = None
    THEN [raised |-> TRUE, logs |-> <<>>]
    ELSE [raised |-> FALSE,
          logs |->
            (IF negative_count(balances) > 0
             THEN <<ValidationLog("negative_cash", "Medium", negative_count(balances))>>
             ELSE <<>>)
            \o (IF missing_count(balances) > 0
                THEN <<ValidationLog("missing_balance", "High", missing_count(balances))>>
                ELSE <<>>)
            \o (IF duplicates(balances) > 0
                THEN <<ValidationLog("duplicate", "High", duplicates(balances))>>
                ELSE <<>>)]

validate_data(balances) ==
    IF \E i \in 1..Len(balances) :
          "balance_local" \in DOMAIN balances[i] /\ balances[i].balance_local = None
    THEN [raised |-> TRUE, logs |-> <<>>]
    ELSE [raised |-> FALSE,
          logs |->
            (IF missing_count(balances) > 0
             THEN <<ValidationLog("missing_balance", "High", missing_count(balances))>>
             ELSE <<>>)
            \o (IF negative_count(balances) > 0
                THEN <<ValidationLog("negative_cash", "Medium", negative_count(balances))>>
                ELSE <<>>)
            \o (IF duplicates(balances) > 0
                THEN <<ValidationLog("duplicate", "High", duplicates(balances))>>
                ELSE <<>>)]

(***************************************************************************)
(* POST /treasury/validate (lines 658-690).                                *)
(***************************************************************************)
\* Lines 666-670 and 682-687.
validation_response(logs) ==
    [op |-> "run_validation", status_code |-> 200, status |-> "success",
     issues_found |-> Len(logs), validations |-> logs]

\* Lines 663-673: the fetch of the balances, the early return on an empty
\* snapshot, and validate_data.
run_validation_find(t) ==
    /\ pc[t] = "idle"
    /\ IF cash_balances = <<>>
       THEN Return(t, validation_response(<<>>))
       ELSE IF validate_data(cash_balances).raised
       THEN Return(t, InternalError("run_validation", "TypeError"))
       ELSE Goto(t, "validation_delete",
                 [op |-> "run_validation",
                  validation_logs |-> validate_data(cash_balances).logs])
    /\ UNCHANGED <<cash_balances, netting_results, validation_logs, cash_pools,
                   fx_rates>>

\* Line 676: await db.validation_logs.delete_many({}); with no log to save
\* the handler returns.
run_validation_delete(t) ==
    /\ pc[t] = "validation_delete"
    /\ validation_logs' = <<>>
    /\ IF loc[t].validation_logs = <<>>
       THEN Return(t, validation_response(<<>>))
       ELSE Goto(t, "validation_insert", loc[t])
    /\ UNCHANGED <<cash_balances, netting_results, cash_pools, fx_rates>>

\* Line 680: await db.validation_logs.insert_many(...), then the return.
run_validation_insert(t) ==
    /\ pc[t] = "validation_insert"
    /\ validation_logs' = validation_logs \o loc[t].validation_logs
    /\ Return(t, validation_response(loc[t].validation_logs))
    /\ UNCHANGED <<cash_balances, netting_results, cash_pools, fx_rates>>

(***************************************************************************)
(* GET /treasury/validation/report (lines 692-726).                        *)
(***************************************************************************)
\* Lines 707-711 and 713-717: dicts from each severity, and from each check
\* type, to the number of logs that carry it.
by_severity(logs) ==
    [k \in {logs[i].severity : i \in 1..Len(logs)} |->
        Cardinality({i \in 1..Len(logs) : logs[i].severity = k})]

by_type(logs) ==
    [k \in {logs[i].check_type : i \in 1..Len(logs)} |->
        Cardinality({i \in 1..Len(logs) : logs[i].check_type = k})]

\* Lines 698-724.
validation_report_response(logs) ==
    [op |-> "get_validation_report", status_code |-> 200,
     total_issues |-> Len(logs),
     by_severity |-> by_severity(logs),
     by_type |-> by_type(logs),
     issues |-> logs]

get_validation_report(t) ==
    /\ pc[t] = "idle"
    /\ Return(t, validation_report_response(validation_logs))
    /\ UNCHANGED <<cash_balances, netting_results, validation_logs, cash_pools,
                   fx_rates>>

(***************************************************************************)
(* get_fx_rate (lines 109-131).  A rate is held in ten-thousandths.        *)
(***************************************************************************)
RateScale == 10000

\* Lines 122-130.
default_rates ==
    [p \in {<<"EUR", "USD">>, <<"GBP", "USD">>, <<"SGD", "USD">>, <<"JPY", "USD">>,
            <<"CNY", "USD">>, <<"INR", "USD">>, <<"AUD", "USD">>} |->
        CASE p[1] = "EUR" -> 11000
          [] p[1] = "GBP" -> 12700
          [] p[1] = "SGD" -> 7400
          [] p[1] = "JPY" -> 67
          [] p[1] = "CNY" -> 1400
          [] p[1] = "INR" -> 120
          [] p[1] = "AUD" -> 6600]

\* The lookup with the table consulted before from_currency = to_currency.
get_fx_rate_table_first(from_currency, to_currency, table) ==
    LET currency_pair == <<from_currency, to_currency>>
        found == {i \in 1..Len(table) : table[i].currency_pair = currency_pair}
    IN  IF found /= {}
        THEN table[CHOOSE i \in found : \A j \in found : i <= j].rate
        ELSE IF from_currency = to_currency THEN RateScale
        ELSE IF currency_pair \in DOMAIN default_rates
        THEN default_rates[currency_pair]
        ELSE RateScale

\* The lookup with default_rates consulted before the table.
get_fx_rate_default_first(from_currency, to_currency, table) ==
    LET currency_pair == <<from_currency, to_currency>>
        found == {i \in 1..Len(table) : table[i].currency_pair = currency_pair}
    IN  IF from_currency = to_currency THEN RateScale
        ELSE IF currency_pair \in DOMAIN default_rates
        THEN default_rates[currency_pair]
        ELSE IF found /= {}
        THEN table[CHOOSE i \in found : \A j \in found : i <= j].rate
        ELSE RateScale

get_fx_rate(from_currency, to_currency, table) ==
    LET currency_pair == <<from_currency, to_currency>>
        found == {i \in 1..Len(table) : table[i].currency_pair = currency_pair}
    IN  IF from_currency = to_currency THEN RateScale
        ELSE IF found /= {}
        THEN table[CHOOSE i \in found : \A j \in found : i <= j].rate
        ELSE IF currency_pair \in DOMAIN default_rates
        THEN default_rates[currency_pair]
        ELSE RateScale

\* amount * rate, in cents; a part of a cent in the product is dropped.
times_rate(amount, rate) ==
    (amount \div RateScale) * rate + (((amount % RateScale) * rate) \div RateScale)

\* A call of get_fx_rate (lines 109-131): the one await is the find_one of
\* line 116, and the value returned is the rate.
get_fx_rate_call(t, from_currency, to_currency) ==
    /\ pc[t] = "idle"
    /\ Return(t, [op |-> "get_fx_rate", from_currency |-> from_currency,
                  to_currency |-> to_currency,
                  rate |-> get_fx_rate(from_currency, to_currency, fx_rates)])
    /\ UNCHANGED <<cash_balances, netting_results, validation_logs, cash_pools,
                   fx_rates>>

(***************************************************************************)
(* POST /treasury/import/upload with data_type cash_balances               *)
(* (lines 735-848).  The file holds one row.  The rate lookups of line 784 *)
(* read fx_rates only, so the handler is one step: the insert of line 790. *)
(***************************************************************************)
UploadRow(account, currency, local, entity, region) ==
    [account_number |-> account, balance_date |-> "d1", currency |-> currency,
     balance_local |-> local, entity_code |-> entity, region |-> region]

\* The rows a file of the concurrent specification can hold: 1,000,000.00
\* and 2,000,000.00 of two entities, and a zero balance.
UploadRows ==
    {UploadRow("A1", "USD", 100000000, "E1", "AMER"),
     UploadRow("A2", "USD", 200000000, "E2", "EMEA"),
     UploadRow("A3", "USD", 0, "E2", "EMEA")}

\* Lines 782-786.
uploaded_record(row, table) ==
    Balance(row.account_number, row.balance_date, row.currency,
            Some(row.balance_local),
            times_rate(row.balance_local, get_fx_rate(row.currency, "USD", table)),
            row.entity_code, row.region)

upload_response(n) ==
    [op |-> "upload_data", status_code |-> 200, status |-> "success",
     records_imported |-> n]

upload_data(t) ==
    /\ pc[t] = "idle"
    /\ Len(cash_balances) < MaxBalances
    /\ \E row \in UploadRows :
         cash_balances' = Append(cash_balances, uploaded_record(row, fx_rates))
    /\ Return(t, upload_response(1))
    /\ UNCHANGED <<netting_results, validation_logs, cash_pools, fx_rates>>

\* POST /treasury/import/upload with data_type fx_rates (lines 806-819): the
\* file holds one row, inserted at line 817.
FxRow(from_currency, to_currency, rate) ==
    [currency_pair |-> <<from_currency, to_currency>>, rate |-> rate,
     rate_date |-> "d1"]

\* The rows a rate file can hold: EUR/USD at 1.2 and at 1.3, rates for the
\* pairs USD/USD and EUR/EUR, and a rate for a pair without a default.
FxRows ==
    {FxRow("EUR", "USD", 12000), FxRow("EUR", "USD", 13000),
     FxRow("USD", "USD", 20000), FxRow("EUR", "EUR", 5000),
     FxRow("CHF", "USD", 11500)}

upload_fx_rates(t) ==
    /\ pc[t] = "idle"
    /\ Len(fx_rates) < MaxRates
    /\ \E row \in FxRows : fx_rates' = Append(fx_rates, row)
    /\ Return(t, upload_response(1))
    /\ UNCHANGED <<cash_balances, netting_results, validation_logs, cash_pools>>

(***************************************************************************)
(* POST /treasury/setup/generate-balances (lines 338-395).  The handler    *)
(* reads db.bank_accounts and db.entities, which the model does not hold:  *)
(* the accounts it finds are none or BankAccounts.                         *)
(***************************************************************************)
BankAccounts ==
    <<[account_number |-> "A1", entity_code |-> "E1", currency |-> "USD",
       country_code |-> "US", region |-> "AMER"]>>

\* Lines 361 and 368: a US account holds between 4,000,000 and 60,000,000.
GeneratedAmounts == {400000000, 500000000}

\* Line 343: await db.cash_balances.delete_many({}).
generate_sample_balances_delete(t) ==
    /\ pc[t] = "idle"
    /\ cash_balances' = <<>>
    /\ Goto(t, "generate_find", [op |-> "generate_sample_balances"])
    /\ UNCHANGED <<netting_results, validation_logs, cash_pools, fx_rates>>

\* Lines 346-384: without accounts the HTTPException(400) of line 349 is
\* caught by line 394 and becomes a 500.
generate_sample_balances_find(t) ==
    /\ pc[t] = "generate_find"
    /\ \E accounts \in {<<>>, BankAccounts} :
         IF accounts = <<>>
         THEN Return(t, InternalError("generate_sample_balances",
                                      "400: No bank accounts found"))
         ELSE \E amount \in [1..Len(accounts) -> GeneratedAmounts] :
                Goto(t, "generate_insert",
                     [op |-> "generate_sample_balances",
                      balances |->
                        [i \in 1..Len(accounts) |->
                            Balance(accounts[i].account_number, "d1",
                                    accounts[i].currency, Some(amount[i]),
                                    times_rate(amount[i],
                                        get_fx_rate(accounts[i].currency, "USD", fx_rates)),
                                    accounts[i].entity_code, accounts[i].region)]])
    /\ UNCHANGED <<cash_balances, netting_results, validation_logs, cash_pools,
                   fx_rates>>

\* Line 385: await db.cash_balances.insert_many(...), then the return.
generate_sample_balances_insert(t) ==
    /\ pc[t] = "generate_insert"
    /\ Len(cash_balances) + Len(loc[t].balances) <= MaxBalances
    /\ cash_balances' = cash_balances \o loc[t].balances
    /\ Return(t, [op |-> "generate_sample_balances", status_code |-> 200,
                  status |-> "success", count |-> Len(loc[t].balances)])
    /\ UNCHANGED <<netting_results, validation_logs, cash_pools, fx_rates>>

(***************************************************************************)
(* GET /treasury/liquidity/global-position (lines 399-437) and             *)
(* GET /treasury/liquidity/by-region/{region} (lines 439-474).             *)
(* A balance_usd or balance_local of a product of floats has a part of a   *)
(* cent.  These two handlers are modelled over documents whose amounts are *)
(* in tenths of a cent, so that round(x, 2) has something to round; the    *)
(* amounts of their responses are in cents.                                *)
(***************************************************************************)
\* Tenths of a cent in a cent.
PositionScale == 10

\* round(v, 2) for v tenths of a cent, in cents.
round_position(v) ==
    round2(Frac(v \div PositionScale, v % PositionScale, PositionScale))

RECURSIVE SumLocal(_)
SumLocal(s) == IF s = <<>> THEN 0 ELSE s[1].balance_local[1] + SumLocal(Tail(s))

\* balance['balance_local'] of lines 427 and 463 raises KeyError without the
\* field, and the sum raises TypeError on null.
local_unusable(balances) ==
    \E i \in 1..Len(balances) :
        "balance_local" \notin DOMAIN balances[i] \/ balances[i].balance_local = None

\* The dict of lines 417-420 keyed by currency instead of region.
by_region_keyed_by_currency(balances) ==
    [c \in {balances[i].currency : i \in 1..Len(balances)} |->
        round_position(SumUsd(SelectSeq(balances, LAMBDA b : b.currency = c)))]

\* Lines 417-420 and 431: by_region, rounded.
by_region(balances) ==
    [r \in {balances[i].region : i \in 1..Len(balances)} |->
        round_position(SumUsd(SelectSeq(balances, LAMBDA b : b.region = r)))]

\* Lines 423-426 and 432 (461-464 and 470): by_currency, rounded.
by_currency(balances) ==
    [c \in {balances[i].currency : i \in 1..Len(balances)} |->
        round_position(SumLocal(SelectSeq(balances, LAMBDA b : b.currency = c)))]

\* Lines 455-458 and 469: by_entity, rounded.
by_entity(balances) ==
    [e \in {balances[i].entity_code : i \in 1..Len(balances)} |->
        round_position(SumUsd(SelectSeq(balances, LAMBDA b : b.entity_code = e)))]

\* Lines 405-435.
global_position_response(balances) ==
    IF balances = <<>>
    THEN [op |-> "get_global_position", status_code |-> 200,
          total_liquidity_usd |-> 0, by_region |-> <<>>, by_currency |-> <<>>,
          total_accounts |-> 0]
    ELSE IF local_unusable(balances)
    THEN InternalError("get_global_position", "TypeError")
    ELSE [op |-> "get_global_position", status_code |-> 200,
          total_liquidity_usd |-> round_position(SumUsd(balances)),
          by_region |-> by_region(balances),
          by_currency |-> by_currency(balances),
          total_accounts |-> Len(balances),
          as_of_date |-> balances[1].balance_date]

get_global_position(t) ==
    /\ pc[t] = "idle"
    /\ Return(t, global_position_response(cash_balances))
    /\ UNCHANGED <<cash_balances, netting_results, validation_logs, cash_pools,
                   fx_rates>>

\* Lines 445-471: the answer without a balance of the region has the keys
\* region, total_usd, entities (an empty list) and currencies only.
regional_liquidity_response(region, balances) ==
    IF balances = <<>>
    THEN [op |-> "get_regional_liquidity", status_code |-> 200,
          region |-> region, total_usd |-> 0, entities |-> <<>>,
          currencies |-> <<>>]
    ELSE IF local_unusable(balances)
    THEN InternalError("get_regional_liquidity", "TypeError")
    ELSE [op |-> "get_regional_liquidity", status_code |-> 200,
          region |-> region,
          total_usd |-> round_position(SumUsd(balances)),
          entities |-> by_entity(balances),
          currencies |-> by_currency(balances),
          account_count |-> Len(balances)]

\* Line 443 with find({}): the balances of every region.
get_regional_liquidity_unfiltered(t, region) ==
    /\ pc[t] = "idle"
    /\ Return(t, regional_liquidity_response(region, cash_balances))
    /\ UNCHANGED <<cash_balances, netting_results, validation_logs, cash_pools,
                   fx_rates>>

\* Line 443: find({"region": region}).
get_regional_liquidity(t, region) ==
    /\ pc[t] = "idle"
    /\ Return(t, regional_liquidity_response(region,
                    SelectSeq(cash_balances, LAMBDA b : b.region = region)))
    /\ UNCHANGED <<cash_balances, netting_results, validation_logs, cash_pools,
                   fx_rates>>

(***************************************************************************)
(* POST /treasury/cash-pool/calculate/{region} (lines 516-564).            *)
(***************************************************************************)
CashPool(name, type, region, participants, currency) ==
    [pool_name |-> name, pool_type |-> type, region |-> region,
     header_account |-> "POOL-" \o region \o "-HEADER",
     participant_accounts |-> participants,
     currency |-> currency]

\* find_one({"region": region}): the first pool of the region, or <<>>.
find_pool(pools, region) ==
    LET found == {i \in 1..Len(pools) : pools[i].region = region}
    IN  IF found = {} THEN <<>>
        ELSE <<pools[CHOOSE i \in found : \A j \in found : i <= j]>>

\* find({"account_number": {"$in": accounts}}): the balances of the accounts.
balances_of_accounts(balances, accounts) ==
    SelectSeq(balances,
        LAMBDA b : \E i \in 1..Len(accounts) : accounts[i] = b.account_number)

\* Lines 543-552 with the variance taken from the total instead of the
\* average.
pool_participant_from_total(balance, sum, n) ==
    [account |-> balance.account_number,
     entity |-> balance.entity_code,
     balance_usd |-> balance.balance_usd,
     variance_from_avg |-> balance.balance_usd - sum,
     status |-> IF balance.balance_usd - sum > 0 THEN "Surplus" ELSE "Deficit"]

\* Lines 543-552 with the comparison of line 551 as >=.
pool_participant_surplus_at_zero(balance, sum, n) ==
    [account |-> balance.account_number,
     entity |-> balance.entity_code,
     balance_usd |-> balance.balance_usd,
     variance_from_avg |-> round2(MinusAvg(balance.balance_usd, sum, n)),
     status |-> IF ~BelowAvg(balance.balance_usd, sum, n)
                THEN "Surplus" ELSE "Deficit"]

\* Lines 543-552.
pool_participant(balance, sum, n) ==
    [account |-> balance.account_number,
     entity |-> balance.entity_code,
     balance_usd |-> balance.balance_usd,
     variance_from_avg |-> round2(MinusAvg(balance.balance_usd, sum, n)),
     status |-> IF FracGreaterInt(MinusAvg(balance.balance_usd, sum, n), 0)
                THEN "Surplus" ELSE "Deficit"]

\* Lines 532-561.
pooling_response(pool, balances) ==
    IF balances = <<>>
    THEN [op |-> "calculate_cash_pooling", status_code |-> 200,
          pool_name |-> pool.pool_name, total_pooled |-> 0, participants |-> <<>>]
    ELSE LET sum == SumUsd(balances)
             n   == Len(balances)
         IN  [op |-> "calculate_cash_pooling", status_code |-> 200,
              pool_name |-> pool.pool_name, pool_type |-> pool.pool_type,
              total_pooled_usd |-> sum,
              average_balance |-> round2(Frac(sum \div n, sum % n, n)),
              participants |->
                [i \in 1..n |-> pool_participant(balances[i], sum, n)]]

\* The HTTPException(status_code=404) of line 524.
pool_not_found == [status_code |-> 404, detail |-> "No pool found for region"]

\* Lines 563-564: except Exception catches the HTTPException of line 524 too,
\* and raises HTTPException(status_code=500, detail=str(e)).
calculate_cash_pooling_except(e) == InternalError("calculate_cash_pooling", e)

\* Lines 521-524: await db.cash_pools.find_one({"region": region}).
calculate_cash_pooling_find_one(t, region) ==
    /\ pc[t] = "idle"
    /\ IF find_pool(cash_pools, region) = <<>>
       THEN Return(t, calculate_cash_pooling_except(pool_not_found))
       ELSE Goto(t, "pooling_find",
                 [op |-> "calculate_cash_pooling", region |-> region,
                  pool |-> find_pool(cash_pools, region)[1]])
    /\ UNCHANGED <<cash_balances, netting_results, validation_logs, cash_pools,
                   fx_rates>>

\* Lines 527-561: await db.cash_balances.find(...), then the calculation.
calculate_cash_pooling_find(t) ==
    /\ pc[t] = "pooling_find"
    /\ Return(t, pooling_response(loc[t].pool,
                    balances_of_accounts(cash_balances,
                                         loc[t].pool.participant_accounts)))
    /\ UNCHANGED <<cash_balances, netting_results, validation_logs, cash_pools,
                   fx_rates>>

(***************************************************************************)
(* GET /treasury/cash-pool/status (lines 478-514).  An efficiency is held  *)
(* in hundredths of a percent.                                             *)
(***************************************************************************)
\* The 100 of line 496, in hundredths of a percent.
HundredPercent == 10000

\* Lines 496 and 504:
\* round(min(100, participant_count / max(1, accounts) * 100), 2).
efficiency(participant_count, accounts) ==
    LET m == IF accounts > 1 THEN accounts ELSE 1
        x == Frac((participant_count * HundredPercent) \div m,
                  (participant_count * HundredPercent) % m, m)
    IN  round2(IF x.ip >= HundredPercent THEN Frac(HundredPercent, 0, m) ELSE x)

\* Lines 492-506: the entry of a pool, from the balances found for its
\* participant accounts.
pool_status_entry(pool, balances) ==
    [pool_name |-> pool.pool_name, pool_type |-> pool.pool_type,
     region |-> pool.region,
     total_balance_usd |-> SumUsd(balances),
     participants |-> Len(balances),
     efficiency |-> efficiency(Len(balances), Len(pool.participant_accounts)),
     status |-> IF Len(balances) > 0 THEN "Active" ELSE "Inactive"]

\* Lines 508-511.
pool_status_response(pools, pool_status) ==
    [op |-> "get_cash_pool_status", status_code |-> 200,
     pools |-> pool_status, total_pools |-> Len(pools)]

\* Line 482: await db.cash_pools.find(...); without a pool the loop of line
\* 485 has no turn and the handler returns.
get_cash_pool_status_find_pools(t) ==
    /\ pc[t] = "idle"
    /\ IF cash_pools = <<>>
       THEN Return(t, pool_status_response(<<>>, <<>>))
       ELSE Goto(t, "pool_status_find",
                 [op |-> "get_cash_pool_status", pools |-> cash_pools,
                  pool_status |-> <<>>])
    /\ UNCHANGED <<cash_balances, netting_results, validation_logs, cash_pools,
                   fx_rates>>

\* Lines 487-506: one turn of the loop, await db.cash_balances.find(...) for
\* the next pool; after the last pool, the return.
get_cash_pool_status_find_balances(t) ==
    /\ pc[t] = "pool_status_find"
    /\ LET pool == loc[t].pools[Len(loc[t].pool_status) + 1]
           pool_status ==
               Append(loc[t].pool_status,
                      pool_status_entry(pool,
                          balances_of_accounts(cash_balances,
                                               pool.participant_accounts)))
       IN  IF Len(pool_status) = Len(loc[t].pools)
           THEN Return(t, pool_status_response(loc[t].pools, pool_status))
           ELSE Goto(t, "pool_status_find",
                     [op |-> "get_cash_pool_status", pools |-> loc[t].pools,
                      pool_status |-> pool_status])
    /\ UNCHANGED <<cash_balances, netting_results, validation_logs, cash_pools,
                   fx_rates>>

(***************************************************************************)
(* GET /treasury/analytics/summary (lines 920-959): four awaited reads,    *)
(* then the metrics.  Amounts are cents.                                   *)
(***************************************************************************)
\* Line 945: the [:5] of the ranking.
TopLimit == 5

\* Lines 934-937 and 953: regional_breakdown.
regional_liquidity(balances) ==
    [r \in {balances[i].region : i \in 1..Len(balances)} |->
        SumUsd(SelectSeq(balances, LAMBDA b : b.region = r))]

\* sorted(..., key=lambda x: x[1], reverse=True) (line 945): a stable sort,
\* an item going behind every item whose total is not smaller.
RECURSIVE sorted_by_total(_)
sorted_by_total(eb) ==
    IF eb = <<>> THEN <<>>
    ELSE LET init == sorted_by_total(SubSeq(eb, 1, Len(eb) - 1))
             x == eb[Len(eb)]
             ahead == SelectSeq(init, LAMBDA y : y.total >= x.total)
             behind == SelectSeq(init, LAMBDA y : y.total < x.total)
         IN  ahead \o <<x>> \o behind

\* Lines 945 and 954.
top_entities(balances) ==
    LET top == Take(sorted_by_total(entity_balances(balances)), TopLimit)
    IN  [i \in 1..Len(top) |->
            [entity |-> top[i].entity, balance_usd |-> top[i].total]]

\* Lines 947-956.
analytics_summary_response(balances, pools, netting, validations) ==
    [op |-> "get_analytics_summary", status_code |-> 200,
     total_liquidity_usd |-> SumUsd(balances),
     total_accounts |-> Len(balances),
     total_cash_pools |-> Len(pools),
     active_netting_transactions |-> Len(netting),
     data_quality_issues |-> Len(validations),
     regional_breakdown |-> regional_liquidity(balances),
     top_entities |-> top_entities(balances)]

\* Line 925: await db.cash_balances.find(...).
get_analytics_summary_find_balances(t) ==
    /\ pc[t] = "idle"
    /\ Goto(t, "analytics_find_pools",
            [op |-> "get_analytics_summary", balances |-> cash_balances])
    /\ UNCHANGED <<cash_balances, netting_results, validation_logs, cash_pools,
                   fx_rates>>

\* Line 926: await db.cash_pools.find(...).
get_analytics_summary_find_pools(t) ==
    /\ pc[t] = "analytics_find_pools"
    /\ Goto(t, "analytics_find_netting",
            [op |-> "get_analytics_summary", balances |-> loc[t].balances,
             pools |-> cash_pools])
    /\ UNCHANGED <<cash_balances, netting_results, validation_logs, cash_pools,
                   fx_rates>>

\* Line 927: await db.netting_results.find(...).
get_analytics_summary_find_netting(t) ==
    /\ pc[t] = "analytics_find_netting"
    /\ Goto(t, "analytics_find_validations",
            [op |-> "get_analytics_summary", balances |-> loc[t].balances,
             pools |-> loc[t].pools, netting |-> netting_results])
    /\ UNCHANGED <<cash_balances, netting_results, validation_logs, cash_pools,
                   fx_rates>>

\* Lines 928-956: await db.validation_logs.find(...), the metrics and the
\* return.
get_analytics_summary_find_validations(t) ==
    /\ pc[t] = "analytics_find_validations"
    /\ Return(t, analytics_summary_response(loc[t].balances, loc[t].pools,
                                            loc[t].netting, validation_logs))
    /\ UNCHANGED <<cash_balances, netting_results, validation_logs, cash_pools,
                   fx_rates>>

(***************************************************************************)
(* Spec: the requests of Tasks run concurrently against a database that    *)
(* starts empty: imports of balances, netting runs and reads of the        *)
(* netting results.                                                        *)
(***************************************************************************)
Init ==
    /\ cash_balances = <<>>
    /\ netting_results = <<>>
    /\ validation_logs = <<>>
    /\ cash_pools = <<>>
    /\ fx_rates = <<>>
    /\ pc = [t \in Tasks |-> "idle"]
    /\ loc = [t \in Tasks |-> NoLocals]
    /\ resp = [t \in Tasks |-> NoResponse]

Next ==
    \E t \in Tasks :
        \/ upload_data(t)
        \/ run_netting_delete(t)
        \/ run_netting_find(t)
        \/ run_netting_insert(t)
        \/ get_netting_results(t)
        \/ complete(t)

Spec == Init /\ [][Next]_vars

(***************************************************************************)
(* SpecValidation: the same, with imports and regenerations of balances,   *)
(* validation runs and reads of the validation report.                     *)
(***************************************************************************)
NextValidation ==
    \E t \in Tasks :
        \/ upload_data(t)
        \/ generate_sample_balances_delete(t)
        \/ generate_sample_balances_find(t)
        \/ generate_sample_balances_insert(t)
        \/ run_validation_find(t)
        \/ run_validation_delete(t)
        \/ run_validation_insert(t)
        \/ get_validation_report(t)
        \/ complete(t)

SpecValidation == Init /\ [][NextValidation]_vars

(***************************************************************************)
(* SpecNetting: one netting run over each snapshot of two input families.  *)
(***************************************************************************)
\* The entity codes of the many-entity family, and the first MaxEntities of
\* them.
EntityCodes == <<"E1", "E2", "E3", "E4", "E5", "E6", "E7", "E8">>
ManyEntities == {EntityCodes[i] : i \in 1..Min(MaxEntities, Len(EntityCodes))}

\* The place of an entity code in EntityCodes.
Rank(e) == CHOOSE i \in 1..Len(EntityCodes) : EntityCodes[i] = e

\* Every entity holds one account, with 0 or (the first three entities)
\* with 2,000,000.00: up to four deficit entities and one surplus entity,
\* three surplus entities and a deficit entity, three deficit and two surplus
\* entities, in every order up to a renaming of the entities that never
\* hold an amount: those appear in the order of EntityCodes.
ManyRecords ==
    {UsdBalance(e, 0) : e \in ManyEntities}
        \cup {UsdBalance(e, 200000000) : e \in ManyEntities \cap {"E1", "E2", "E3"}}

ManySnapshots ==
    {s \in SeqsUpTo(ManyRecords, MaxEntities) :
        \A i, j \in 1..Len(s) :
            /\ s[i].entity_code = s[j].entity_code => i = j
            /\ (i < j /\ Rank(s[i].entity_code) > 3 /\ Rank(s[j].entity_code) > 3)
                  => Rank(s[i].entity_code) < Rank(s[j].entity_code)}

\* Three entities, several records each, amounts around the threshold:
\* 100.00 and 300.00, 1,000,000.00 and 2,000,000.00, 666,666.67 and
\* 1,000,000.01.
FineRecords ==
    {UsdBalance("E1", 10000), UsdBalance("E1", 100000000),
     UsdBalance("E2", 0), UsdBalance("E2", 30000),
     UsdBalance("E2", 200000000), UsdBalance("E2", 66666667),
     UsdBalance("E3", 0), UsdBalance("E3", 100000001)}

NettingSnapshots == ManySnapshots \cup SeqsUpTo(FineRecords, MaxFine)

NettingTask == "t1"

InitNetting ==
    /\ cash_balances \in NettingSnapshots
    /\ netting_results = <<>>
    /\ validation_logs = <<>>
    /\ cash_pools = <<>>
    /\ fx_rates = <<>>
    /\ pc = [t \in Tasks |-> "idle"]
    /\ loc = [t \in Tasks |-> NoLocals]
    /\ resp = [t \in Tasks |-> NoResponse]

NextNetting ==
    \/ run_netting_delete(NettingTask)
    \/ run_netting_find(NettingTask)
    \/ run_netting_insert(NettingTask)

SpecNetting == InitNetting /\ [][NextNetting]_vars
(***************************************************************************)
(* SpecPool: pool calculations over each set of pools and each snapshot.   *)
(***************************************************************************)
Regions == {"APAC", "EMEA", "AMER"}

\* The pools of lines 293-318, over the accounts of PoolRecords.
ApacPool == CashPool("APAC Cash Pool", "Physical", "APAC", <<"A1", "A2", "A3">>, "USD")
EmeaPool == CashPool("EMEA Cash Pool", "Notional", "EMEA", <<"A4">>, "EUR")
AmerPool == CashPool("AMER Cash Pool", "Physical", "AMER", <<>>, "USD")

\* The pool collection before and after initialize_master_data, and after a
\* pool has been removed.
PoolCollections ==
    {<<>>, <<ApacPool>>, <<ApacPool, EmeaPool>>, <<ApacPool, EmeaPool, AmerPool>>}

PoolRecords ==
    {Balance("A1", "d1", "USD", Some(100000000), 100000000, "E1", "APAC"),
     Balance("A2", "d1", "USD", Some(200000000), 200000000, "E2", "APAC"),
     Balance("A2", "d1", "USD", Some(100), 100, "E2", "APAC"),
     Balance("A4", "d1", "USD", Some(100000000), 100000000, "E4", "EMEA")}

InitPool ==
    /\ cash_balances \in SeqsUpTo(PoolRecords, MaxPoolBalances)
    /\ netting_results = <<>>
    /\ validation_logs = <<>>
    /\ cash_pools \in PoolCollections
    /\ fx_rates = <<>>
    /\ pc = [t \in Tasks |-> "idle"]
    /\ loc = [t \in Tasks |-> NoLocals]
    /\ resp = [t \in Tasks |-> NoResponse]

NextPool ==
    \E t \in Tasks :
        \/ \E region \in Regions : calculate_cash_pooling_find_one(t, region)
        \/ calculate_cash_pooling_find(t)
        \/ complete(t)

SpecPool == InitPool /\ [][NextPool]_vars

(***************************************************************************)
(* SpecPooling: the status of the pools and the calculation of a pool, one *)
(* request at a time, over each set of pools and each snapshot of          *)
(* PoolingRecords.                                                         *)
(***************************************************************************)
\* The records of PoolRecords and a balance of account A3 one cent under
\* that of A1.
PoolingRecords ==
    PoolRecords
        \cup {Balance("A3", "d1", "USD", Some(99999999), 99999999, "E3", "APAC")}

PoolingTask == "t1"

InitPooling ==
    /\ cash_balances \in SeqsUpTo(PoolingRecords, MaxPooled)
    /\ netting_results = <<>>
    /\ validation_logs = <<>>
    /\ cash_pools \in PoolCollections
    /\ fx_rates = <<>>
    /\ pc = [t \in Tasks |-> "idle"]
    /\ loc = [t \in Tasks |-> NoLocals]
    /\ resp = [t \in Tasks |-> NoResponse]

NextPooling ==
    \/ get_cash_pool_status_find_pools(PoolingTask)
    \/ get_cash_pool_status_find_balances(PoolingTask)
    \/ \E region \in Regions : calculate_cash_pooling_find_one(PoolingTask, region)
    \/ calculate_cash_pooling_find(PoolingTask)
    \/ complete(PoolingTask)

SpecPooling == InitPooling /\ [][NextPooling]_vars

(***************************************************************************)
(* SpecFx: imports of rates and of balances, and rate lookups between the  *)
(* currencies of Currencies.                                               *)
(***************************************************************************)
\* Two currencies with a default rate to USD, one without, and USD.
Currencies == {"USD", "EUR", "GBP", "CHF"}

\* One request at a time: the lookup reads the table in a single step.
FxTask == "t1"

NextFx ==
    \/ upload_fx_rates(FxTask)
    \/ upload_data(FxTask)
    \/ \E from_currency, to_currency \in Currencies :
          get_fx_rate_call(FxTask, from_currency, to_currency)
    \/ complete(FxTask)

SpecFx == Init /\ [][NextFx]_vars

(***************************************************************************)
(* The netting contract in its own terms, for a snapshot bals: totals by   *)
(* entity, the average compared by cross-multiplication, entities ranked   *)
(* by the first record that names them.                                    *)
(***************************************************************************)
SnapshotEntities(bals) == {bals[i].entity_code : i \in 1..Len(bals)}

EntityTotal(bals, e) == SumUsd(SelectSeq(bals, LAMBDA b : b.entity_code = e))

FirstRecord(bals, e) ==
    CHOOSE i \in 1..Len(bals) :
        /\ bals[i].entity_code = e
        /\ \A j \in 1..(i - 1) : bals[j].entity_code /= e

\* One record per entity: its code, its total, the index of its first record.
EntityInfo(bals) ==
    {[entity |-> e, total |-> EntityTotal(bals, e), first |-> FirstRecord(bals, e)] :
        e \in SnapshotEntities(bals)}

\* The entities below and above the average sum / Cardinality(info).
DeficitSet(info, sum) == {x \in info : Cardinality(info) * x.total < sum}
SurplusSet(info, sum) == {x \in info : Cardinality(info) * x.total > sum}

\* The k entities of S that appear first.
FirstOf(S, k) == {x \in S : Cardinality({y \in S : y.first < x.first}) < k}

\* Cardinality(info) times min(|deficit_total - avg|, surplus_total - avg).
ScaledGap(info, sum, d, u) ==
    Min(sum - Cardinality(info) * d.total, Cardinality(info) * u.total - sum)

\* min(...) * 0.3 > 100,000, that is 3 * ScaledGap > Cardinality(info) * 10^8
\* cents.
OverThreshold(info, sum, d, u) ==
    ScaledGap(info, sum, d, u) > ((Cardinality(info) * 100000000) \div 3)

\* The run of the netting specification has returned success.
RunReturned ==
    /\ pc[NettingTask] = "done"
    /\ resp[NettingTask].op = "run_netting"
    /\ resp[NettingTask].status_code = 200

Returned == resp[NettingTask].transactions

\* Each candidate pair is emitted exactly when it is over the threshold, and
\* nothing else is emitted.
EmittedIffOverThreshold ==
    LET info == EntityInfo(cash_balances)
        sum  == SumUsd(cash_balances)
        ds   == FirstOf(DeficitSet(info, sum), 3)
        us   == FirstOf(SurplusSet(info, sum), 2)
        txs  == Returned
    IN  /\ \A d \in ds, u \in us :
              OverThreshold(info, sum, d, u)
                  <=> \E k \in 1..Len(txs) :
                          txs[k].to_entity = d.entity /\ txs[k].from_entity = u.entity
        /\ \A k \in 1..Len(txs) :
              /\ \E d \in ds : txs[k].to_entity = d.entity
              /\ \E u \in us : txs[k].from_entity = u.entity
              /\ \A l \in 1..Len(txs) :
                    (txs[l].to_entity = txs[k].to_entity
                        /\ txs[l].from_entity = txs[k].from_entity) => l = k

\* C6 as claimed: in a netting run a candidate pair emits a transaction if and
\* only if min(|deficit_total - avg|, surplus_total - avg) * 0.3 > 100,000,
\* and every emitted amount is greater than 100,000.
C6_EmittedAmountOverThreshold ==
    RunReturned =>
        /\ EmittedIffOverThreshold
        /\ \A k \in 1..Len(Returned) : Returned[k].amount > 10000000

\* C6 as amended: in a netting run a candidate pair emits a transaction if and
\* only if min(|deficit_total - avg|, surplus_total - avg) * 0.3 > 100,000;
\* the emitted amount is that value rounded to cents, so it is at least
\* 100,000.00 (and non-negative), and a value of exactly 100,000 emits
\* nothing.
C6_EmittedIffOverThreshold ==
    RunReturned =>
        /\ EmittedIffOverThreshold
        /\ \A k \in 1..Len(Returned) : Returned[k].amount >= 10000000

\* A run has emitted a transaction whose amount rounds to 100,000.00.
C6_Witness ==
    /\ RunReturned
    /\ \E k \in 1..Len(Returned) : Returned[k].amount = 10000000

\* C7: a netting run pairs only the first three deficit entities and the
\* first two surplus entities, in order of first appearance; it emits at most
\* 6 transactions, ordered by deficit entity first and surplus entity second.
C7_FirstThreeByFirstTwo ==
    RunReturned =>
        LET info == EntityInfo(cash_balances)
            sum  == SumUsd(cash_balances)
            ds   == FirstOf(DeficitSet(info, sum), 3)
            us   == FirstOf(SurplusSet(info, sum), 2)
            txs  == Returned
            \* where the deficit and the surplus entity of txs[k] first appear
            at   == [k \in 1..Len(txs) |->
                        <<FirstRecord(cash_balances, txs[k].to_entity),
                          FirstRecord(cash_balances, txs[k].from_entity)>>]
        IN  /\ Len(txs) <= 6
            /\ \A k \in 1..Len(txs) :
                  /\ \E d \in ds : txs[k].to_entity = d.entity
                  /\ \E u \in us : txs[k].from_entity = u.entity
            /\ \A k \in 1..(Len(txs) - 1) :
                  \/ at[k][1] < at[k + 1][1]
                  \/ (at[k][1] = at[k + 1][1] /\ at[k][2] < at[k + 1][2])

\* A run over four deficit entities and one surplus entity has emitted three
\* transactions: the fourth deficit entity was left out.
C7_Witness ==
    /\ RunReturned
    /\ Cardinality(DeficitSet(EntityInfo(cash_balances), SumUsd(cash_balances))) = 4
    /\ Len(Returned) = 3

\* amount is 3 * gap / 20 rounded to a whole number of cents, ties to even.
IsRoundedAmount(amount, gap) ==
    LET delta == 3 * gap - 20 * amount
    IN  \/ (delta > -10 /\ delta < 10)
        \/ ((delta = 10 \/ delta = -10) /\ (amount % 2) = 0)

\* For a snapshot of exactly two entities with totals a < b: one transaction
\* from the b-entity to the a-entity when 0.3*(b-a)/2 > 100,000, and none
\* otherwise.
TwoEntityResult(exact) ==
    LET info == EntityInfo(cash_balances)
        txs  == Returned
    IN  \A lo, hi \in info :
            (Cardinality(info) = 2 /\ lo.total < hi.total) =>
                IF 3 * (hi.total - lo.total) > 200000000
                THEN /\ Len(txs) = 1
                     /\ txs[1].from_entity = hi.entity
                     /\ txs[1].to_entity = lo.entity
                     /\ txs[1].currency = "USD"
                     /\ IF exact
                        THEN 20 * txs[1].amount = 3 * (hi.total - lo.total)
                        ELSE IsRoundedAmount(txs[1].amount, hi.total - lo.total)
                ELSE txs = <<>>

\* C8 as claimed: for two entities with totals a < b, a run emits exactly one
\* transaction, from the b-entity to the a-entity with amount 0.3*(b-a)/2 and
\* currency USD, when that amount exceeds 100,000, and none otherwise.
C8_TwoEntitiesExactAmount == RunReturned => TwoEntityResult(TRUE)

\* C8 as amended: the same, the amount of the transaction being 0.3*(b-a)/2
\* rounded to cents.
C8_TwoEntitiesRoundedAmount == RunReturned => TwoEntityResult(FALSE)

\* Totals 1,000,000.00 and 2,000,000.00 have given one transaction of
\* 150,000.00, and totals 100.00 and 300.00 none.
C8_Witness ==
    /\ RunReturned
    /\ \E lo, hi \in EntityInfo(cash_balances) :
          /\ Cardinality(EntityInfo(cash_balances)) = 2
          /\ lo.total = 100000000
          /\ hi.total = 200000000
    /\ Len(Returned) = 1
    /\ Returned[1].amount = 15000000

(***************************************************************************)
(* The contracts of the concurrent specifications.                         *)
(***************************************************************************)
\* Request t has returned success from a netting run.
NettingRunDone(t) ==
    /\ pc[t] = "done"
    /\ resp[t].op = "run_netting"
    /\ resp[t].status_code = 200

\* Stored netting documents without their date and status.
without_status(results) ==
    [k \in 1..Len(results) |->
        [from_entity |-> results[k].from_entity, to_entity |-> results[k].to_entity,
         amount |-> results[k].amount, currency |-> results[k].currency]]

\* C1: when two netting runs overlap, after both have completed the stored
\* netting results are the transactions of exactly one of the runs, never the
\* results of both.
C1_OverlappingRunsKeepOne ==
    \A t, u \in Tasks :
        (t /= u /\ NettingRunDone(t) /\ NettingRunDone(u)) =>
            netting_results \in {resp[t].transactions, resp[u].transactions}

\* C2: while a netting run is in progress (its results computed and not yet
\* inserted), a concurrent get_netting_results returns either the complete
\* results of the previous run or the complete results of the new run, never
\* an empty or partial set.
C2_ReaderSeesWholeResults ==
    [][\A r, w \in Tasks :
          (/\ r /= w
           /\ pc[w] = "netting_insert"
           /\ pc[r] = "idle"
           /\ pc'[r] = "done"
           /\ resp'[r].op = "get_netting_results")
              => \/ resp'[r].transactions = loc[w].before
                 \/ without_status(resp'[r].transactions) = loc[w].transactions]_vars

\* C3: after run_validation returns, the stored validation logs are exactly
\* the logs of that run, for every snapshot including an empty one, so that a
\* following get_validation_report reports total_issues equal to the run's
\* issues_found.  (Stated for a run no other validation run overlaps.)
C3_ValidationRunSupersedesLogs ==
    [][\A t \in Tasks :
          (/\ pc[t] /= "done"
           /\ pc'[t] = "done"
           /\ resp'[t].op = "run_validation"
           /\ resp'[t].status_code = 200
           /\ \A u \in Tasks \ {t} :
                 pc[u] \notin {"validation_delete", "validation_insert"})
              => /\ validation_logs' = resp'[t].validations
                 /\ validation_report_response(validation_logs').total_issues
                        = resp'[t].issues_found]_vars

\* C4: a netting run over a snapshot without balance records returns an empty
\* result (success, no transactions, total_netted_usd 0) instead of failing
\* on a division by zero.
C4_NoEntitiesEmptyResult ==
    [][\A t \in Tasks :
          (/\ pc[t] = "netting_find"
           /\ pc'[t] = "done"
           /\ cash_balances = <<>>)
              => /\ resp'[t].status_code = 200
                 /\ resp'[t].transactions = <<>>
                 /\ resp'[t].total_netted_usd = 0]_vars

\* C5: a pool calculation for a region without a pool is answered with a
\* not-found condition (status 404), distinct from an internal failure, and
\* computes no result.
C5_UnknownPoolNotFound ==
    [][\A t \in Tasks :
          (/\ pc[t] = "idle"
           /\ pc'[t] = "done"
           /\ resp'[t].op = "calculate_cash_pooling")
              => resp'[t].status_code = 404]_vars

\* C9: every netting transaction stored or returned has status Settled or
\* Pending; no sequence of netting runs produces the status Failed.
C9_StatusSettledOrPending ==
    /\ \A i \in 1..Len(netting_results) :
          netting_results[i].status \in {"Settled", "Pending"}
    /\ \A t \in Tasks :
          (pc[t] = "done" /\ resp[t].op \in {"run_netting", "get_netting_results"}
              /\ resp[t].status_code = 200)
              => \A i \in 1..Len(resp[t].transactions) :
                    resp[t].transactions[i].status \in {"Settled", "Pending"}

\* Runs have stored a Pending and a Settled transaction, and a request has
\* returned a Pending one.
C9_Witness ==
    /\ \E i \in 1..Len(netting_results) : netting_results[i].status = "Pending"
    /\ \E i \in 1..Len(netting_results) : netting_results[i].status = "Settled"
    /\ \E t \in Tasks :
          /\ NettingRunDone(t)
          /\ \E i \in 1..Len(resp[t].transactions) :
                resp[t].transactions[i].status = "Pending"

\* The total get_netting_results reports, read as
\* data.get('total_netted_usd', 0) (backend_test.py, test_netting).
ReportedTotalNetted(r) ==
    IF "total_netted_usd" \in DOMAIN r THEN r.total_netted_usd ELSE 0

RECURSIVE SumCounts(_, _)
SumCounts(f, keys) ==
    IF keys = {} THEN 0
    ELSE LET k == CHOOSE k \in keys : TRUE
         IN  f[k] + SumCounts(f, keys \ {k})

\* C10: when a netting run returns success, get_netting_results (before any
\* other write) reports exactly that run's transactions: the same
\* total_transactions and total_netted_usd as the run returned, with by_status
\* counts summing to total_transactions, whatever earlier runs had stored.
C10_ResultsAreTheRun ==
    [][\A t \in Tasks :
          (/\ pc[t] \in {"netting_find", "netting_insert"}
           /\ pc'[t] = "done"
           /\ resp'[t].status_code = 200)
              => LET r == netting_results_response(netting_results')
                 IN  /\ r.transactions = resp'[t].transactions
                     /\ r.total_transactions = resp'[t].total_transactions
                     /\ ReportedTotalNetted(r) = resp'[t].total_netted_usd
                     /\ SumCounts(r.by_status, DOMAIN r.by_status)
                            = r.total_transactions]_vars

(***************************************************************************)
(* SpecValidate: one validation run over each snapshot of                  *)
(* ValidateSnapshots.                                                      *)
(***************************************************************************)
\* A balance document without the field balance_local.
WithoutLocal(account, date) ==
    [account_number |-> account, balance_date |-> date, currency |-> "USD",
     balance_usd |-> 0, entity_code |-> "E1", region |-> "AMER"]

LocalBalance(account, date, local) ==
    Balance(account, date, "USD", local, 0, "E1", "AMER")

\* Account A1 on day d1 with a positive, a zero, a negative, a null and an
\* absent balance_local; the same account on another day; another account.
ValidateRecords ==
    {LocalBalance("A1", "d1", Some(10000)), LocalBalance("A1", "d1", Some(0)),
     LocalBalance("A1", "d1", Some(-500)), LocalBalance("A1", "d1", None),
     WithoutLocal("A1", "d1"),
     LocalBalance("A1", "d2", Some(10000)),
     LocalBalance("A2", "d1", Some(-500)), LocalBalance("A2", "d1", Some(0))}

ValidateSnapshots == SeqsUpTo(ValidateRecords, MaxValidated)

ValidateTask == "t1"

InitValidate ==
    /\ cash_balances \in ValidateSnapshots
    /\ netting_results = <<>>
    /\ validation_logs = <<>>
    /\ cash_pools = <<>>
    /\ fx_rates = <<>>
    /\ pc = [t \in Tasks |-> "idle"]
    /\ loc = [t \in Tasks |-> NoLocals]
    /\ resp = [t \in Tasks |-> NoResponse]

NextValidate ==
    \/ run_validation_find(ValidateTask)
    \/ run_validation_delete(ValidateTask)
    \/ run_validation_insert(ValidateTask)

SpecValidate == InitValidate /\ [][NextValidate]_vars

(***************************************************************************)
(* SpecPosition: the global and the regional position over each snapshot   *)
(* of PositionSnapshots.                                                   *)
(***************************************************************************)
\* Amounts in tenths of a cent: 0.4 and 1.5 cents, 99.6 cents, 20.00; one
\* document with a null balance_local.
PositionRecords ==
    {Balance("A1", "d1", "USD", Some(4), 4, "E1", "AMER"),
     Balance("A2", "d1", "USD", Some(15), 15, "E2", "AMER"),
     Balance("A3", "d1", "EUR", Some(4), 4, "E3", "EMEA"),
     Balance("A4", "d1", "EUR", Some(906), 996, "E3", "EMEA"),
     Balance("A5", "d1", "SGD", Some(27000), 20000, "E4", "APAC"),
     Balance("A6", "d1", "SGD", None, 4, "E4", "APAC")}

PositionSnapshots == SeqsUpTo(PositionRecords, MaxPositionBalances)

\* The regions of the records, and one region without any.
PositionRegions == {"AMER", "EMEA", "APAC", "LATAM"}

PositionTask == "t1"

InitPosition ==
    /\ cash_balances \in PositionSnapshots
    /\ netting_results = <<>>
    /\ validation_logs = <<>>
    /\ cash_pools = <<>>
    /\ fx_rates = <<>>
    /\ pc = [t \in Tasks |-> "idle"]
    /\ loc = [t \in Tasks |-> NoLocals]
    /\ resp = [t \in Tasks |-> NoResponse]

NextPosition ==
    \/ get_global_position(PositionTask)
    \/ \E region \in PositionRegions : get_regional_liquidity(PositionTask, region)
    \/ complete(PositionTask)

SpecPosition == InitPosition /\ [][NextPosition]_vars

(***************************************************************************)
(* SpecCompute: the computation entry points, one request at a time, over  *)
(* each snapshot of ComputeRecords, each set of pools and each rate table  *)
(* of at most one row.  Each handler reads an amount in its own unit.      *)
(***************************************************************************)
MaxComputed == 2

\* Two entities 1,000,000.00 apart and a document with a null balance_local.
ComputeRecords ==
    {Balance("A1", "d1", "USD", Some(100000000), 100000000, "E1", "APAC"),
     Balance("A2", "d1", "USD", Some(200000000), 200000000, "E2", "APAC"),
     Balance("A4", "d1", "EUR", None, 100, "E4", "EMEA")}

ComputeTask == "t1"

InitCompute ==
    /\ cash_balances \in SeqsUpTo(ComputeRecords, MaxComputed)
    /\ netting_results = <<>>
    /\ validation_logs = <<>>
    /\ cash_pools \in PoolCollections
    /\ fx_rates \in SeqsUpTo(FxRows, 1)
    /\ pc = [t \in Tasks |-> "idle"]
    /\ loc = [t \in Tasks |-> NoLocals]
    /\ resp = [t \in Tasks |-> NoResponse]

NextCompute ==
    \/ get_global_position(ComputeTask)
    \/ \E region \in PositionRegions : get_regional_liquidity(ComputeTask, region)
    \/ get_cash_pool_status_find_pools(ComputeTask)
    \/ get_cash_pool_status_find_balances(ComputeTask)
    \/ \E region \in Regions : calculate_cash_pooling_find_one(ComputeTask, region)
    \/ calculate_cash_pooling_find(ComputeTask)
    \/ run_netting_delete(ComputeTask)
    \/ run_netting_find(ComputeTask)
    \/ run_netting_insert(ComputeTask)
    \/ get_netting_results(ComputeTask)
    \/ run_validation_find(ComputeTask)
    \/ run_validation_delete(ComputeTask)
    \/ run_validation_insert(ComputeTask)
    \/ get_validation_report(ComputeTask)
    \/ get_analytics_summary_find_balances(ComputeTask)
    \/ get_analytics_summary_find_pools(ComputeTask)
    \/ get_analytics_summary_find_netting(ComputeTask)
    \/ get_analytics_summary_find_validations(ComputeTask)
    \/ complete(ComputeTask)

SpecCompute == InitCompute /\ [][NextCompute]_vars

(***************************************************************************)
(* SpecSnapshot: a reader asks for the status of the pools and for the     *)
(* analytics summary while a writer imports balances and runs the netting. *)
(***************************************************************************)
\* A pool for each region of UploadRows, over the accounts of the region.
SnapshotPools ==
    <<CashPool("AMER Cash Pool", "Physical", "AMER", <<"A1">>, "USD"),
      CashPool("EMEA Cash Pool", "Notional", "EMEA", <<"A2", "A3">>, "USD")>>

SnapshotReader == "t1"
SnapshotWriter == "t2"

InitSnapshot ==
    /\ cash_balances = <<>>
    /\ netting_results = <<>>
    /\ validation_logs = <<>>
    /\ cash_pools = SnapshotPools
    /\ fx_rates = <<>>
    /\ pc = [t \in Tasks |-> "idle"]
    /\ loc = [t \in Tasks |-> NoLocals]
    /\ resp = [t \in Tasks |-> NoResponse]

NextSnapshot ==
    \/ get_cash_pool_status_find_pools(SnapshotReader)
    \/ get_cash_pool_status_find_balances(SnapshotReader)
    \/ get_analytics_summary_find_balances(SnapshotReader)
    \/ get_analytics_summary_find_pools(SnapshotReader)
    \/ get_analytics_summary_find_netting(SnapshotReader)
    \/ get_analytics_summary_find_validations(SnapshotReader)
    \/ complete(SnapshotReader)
    \/ upload_data(SnapshotWriter)
    \/ run_netting_delete(SnapshotWriter)
    \/ run_netting_find(SnapshotWriter)
    \/ run_netting_insert(SnapshotWriter)
    \/ complete(SnapshotWriter)

SpecSnapshot == InitSnapshot /\ [][NextSnapshot]_vars

(***************************************************************************)
(* SpecRerun: one request at a time against a database that starts empty:  *)
(* imports and regenerations of balances, and netting runs.                *)
(***************************************************************************)
RerunTask == "t1"

NextRerun ==
    \/ upload_data(RerunTask)
    \/ generate_sample_balances_delete(RerunTask)
    \/ generate_sample_balances_find(RerunTask)
    \/ generate_sample_balances_insert(RerunTask)
    \/ run_netting_delete(RerunTask)
    \/ run_netting_find(RerunTask)
    \/ run_netting_insert(RerunTask)
    \/ complete(RerunTask)

SpecRerun == Init /\ [][NextRerun]_vars

(***************************************************************************)
(* SpecTwoRuns: two netting runs, overlapping or not, over each snapshot   *)
(* of TwoRunsRecords; nothing writes the balances.                         *)
(***************************************************************************)
MaxTwoRuns == 3

\* Entity E1 with 2,000,000.00 or nothing, two entities with nothing.
TwoRunsRecords ==
    {UsdBalance("E1", 200000000), UsdBalance("E1", 0),
     UsdBalance("E2", 0), UsdBalance("E3", 0)}

InitTwoRuns ==
    /\ cash_balances \in SeqsUpTo(TwoRunsRecords, MaxTwoRuns)
    /\ netting_results = <<>>
    /\ validation_logs = <<>>
    /\ cash_pools = <<>>
    /\ fx_rates = <<>>
    /\ pc = [t \in Tasks |-> "idle"]
    /\ loc = [t \in Tasks |-> NoLocals]
    /\ resp = [t \in Tasks |-> NoResponse]

NextTwoRuns ==
    \E t \in Tasks :
        \/ run_netting_delete(t)
        \/ run_netting_find(t)
        \/ run_netting_insert(t)

SpecTwoRuns == InitTwoRuns /\ [][NextTwoRuns]_vars

(***************************************************************************)
(* The contracts of the rate lookup.                                       *)
(***************************************************************************)
\* A rate lookup has returned to request t.
RateReturned(t) == pc[t] = "done" /\ resp[t].op = "get_fx_rate"

\* C11: for every currency C the rate from C to C is 1.0 whatever the rate
\* table holds, an entry for the pair C/C included, so an amount converted
\* from C to C (a USD balance imported into balance_usd) is unchanged.
C11_SameCurrencyRateIsOne ==
    /\ \A t \in Tasks :
          (RateReturned(t) /\ resp[t].from_currency = resp[t].to_currency)
              => resp[t].rate = 10000
    /\ \A i \in 1..Len(cash_balances) :
          cash_balances[i].currency = "USD"
              => cash_balances[i].balance_usd = cash_balances[i].balance_local[1]

\* The table holds rates for USD/USD and EUR/EUR, a lookup from EUR to EUR
\* has returned, and a USD balance has been imported.
C11_Witness ==
    /\ \E i \in 1..Len(fx_rates) : fx_rates[i].currency_pair = <<"USD", "USD">>
    /\ \E i \in 1..Len(fx_rates) : fx_rates[i].currency_pair = <<"EUR", "EUR">>
    /\ RateReturned(FxTask)
    /\ resp[FxTask].from_currency = "EUR"
    /\ resp[FxTask].to_currency = "EUR"
    /\ \E i \in 1..Len(cash_balances) :
          cash_balances[i].currency = "USD" /\ cash_balances[i].balance_local[1] > 0

\* The seven pairs of the default table with their rates, in ten-thousandths.
KnownRate(pair) ==
    CASE pair = <<"EUR", "USD">> -> <<11000>>
      [] pair = <<"GBP", "USD">> -> <<12700>>
      [] pair = <<"SGD", "USD">> -> <<7400>>
      [] pair = <<"JPY", "USD">> -> <<67>>
      [] pair = <<"CNY", "USD">> -> <<1400>>
      [] pair = <<"INR", "USD">> -> <<120>>
      [] pair = <<"AUD", "USD">> -> <<6600>>
      [] OTHER -> <<>>

\* C12: for from /= to the lookup returns a rate stored in the table for the
\* pair from/to if there is one, otherwise the default of the pair if it is
\* one of the seven known pairs, otherwise 1.0; it never ends in an error.
C12_RatePriority ==
    \A t \in Tasks :
        (RateReturned(t) /\ resp[t].from_currency /= resp[t].to_currency) =>
            LET pair   == <<resp[t].from_currency, resp[t].to_currency>>
                stored == {fx_rates[i].rate : i \in
                              {j \in 1..Len(fx_rates) : fx_rates[j].currency_pair = pair}}
            IN  IF stored /= {} THEN resp[t].rate \in stored
                ELSE IF KnownRate(pair) /= <<>> THEN resp[t].rate = KnownRate(pair)[1]
                ELSE resp[t].rate = 10000

\* EUR/USD is stored at a rate other than its default and a lookup of
\* EUR/USD has returned the stored rate.
C12_Witness ==
    /\ RateReturned(FxTask)
    /\ resp[FxTask].from_currency = "EUR"
    /\ resp[FxTask].to_currency = "USD"
    /\ \E i \in 1..Len(fx_rates) : fx_rates[i].currency_pair = <<"EUR", "USD">>
    /\ resp[FxTask].rate /= 11000

(***************************************************************************)
(* The contracts of the validation checks, for the snapshot cash_balances  *)
(* of the validation-check specification.                                  *)
(***************************************************************************)
\* The validation run has ended, with a response or with an error.
ValidateEnded == pc[ValidateTask] = "done" /\ resp[ValidateTask].op = "run_validation"

\* The validation run has returned the logs of validate.
ValidateReturned == ValidateEnded /\ resp[ValidateTask].status_code = 200

Validations == resp[ValidateTask].validations

\* The affected_records of the returned log of a check type, 0 without one.
Affected(check_type) ==
    LET at == {k \in 1..Len(Validations) : Validations[k].check_type = check_type}
    IN  IF at = {} THEN 0 ELSE Validations[CHOOSE k \in at : TRUE].affected_records

\* balance_local is null: the field holds null or the document has none.
IsNull(b) == "balance_local" \notin DOMAIN b \/ b.balance_local = <<>>

NullOrZero(bals) ==
    {i \in 1..Len(bals) : IsNull(bals[i]) \/ bals[i].balance_local = <<0>>}

BelowZero(bals) ==
    {i \in 1..Len(bals) : ~IsNull(bals[i]) /\ bals[i].balance_local[1] < 0}

\* The records that repeat the (account_number, balance_date) of an earlier
\* record: k records sharing one pair count k - 1.
Repeats(bals) ==
    {i \in 1..Len(bals) :
        \E j \in 1..(i - 1) :
            /\ bals[j].account_number = bals[i].account_number
            /\ bals[j].balance_date = bals[i].balance_date}

\* C13: for every snapshot, those with a null balance_local included,
\* validate returns normally, the missing_balance check counts exactly the
\* records whose balance_local is null or 0 and the negative_cash check
\* exactly those whose balance_local is below 0.
C13_ValidateCountsNullAndNegative ==
    ValidateEnded =>
        /\ resp[ValidateTask].status_code = 200
        /\ Affected("missing_balance") = Cardinality(NullOrZero(cash_balances))
        /\ Affected("negative_cash") = Cardinality(BelowZero(cash_balances))

\* C14: the duplicate check's affected_records is the number of records
\* minus the number of distinct (account_number, balance_date) pairs: two
\* records sharing a pair contribute 1 whatever other records exist, and k
\* records sharing a pair contribute k - 1.
C14_DuplicateCount ==
    ValidateReturned =>
        /\ Affected("duplicate") = Cardinality(Repeats(cash_balances))
        /\ Affected("duplicate")
              = Len(cash_balances)
                  - Cardinality({<<cash_balances[i].account_number,
                                   cash_balances[i].balance_date>> :
                                     i \in 1..Len(cash_balances)})

\* Three records share one pair and the duplicate log counts 2.
C14_Witness ==
    /\ ValidateReturned
    /\ Len(cash_balances) = 3
    /\ \A i \in 1..3 :
          /\ cash_balances[i].account_number = cash_balances[1].account_number
          /\ cash_balances[i].balance_date = cash_balances[1].balance_date
    /\ Affected("duplicate") = 2

\* The log a check must return for its count: none for 0, one Open log
\* otherwise.
ExpectedLog(check_type, severity, count) ==
    IF count = 0 THEN <<>>
    ELSE <<[check_type |-> check_type, severity |-> severity,
            affected_records |-> count, status |-> "Open"]>>

\* C15: validate returns, for each check that finds at least one affected
\* record, exactly one log with status Open and none for a check that finds
\* none, in the order missing_balance (High), negative_cash (Medium),
\* duplicate (High), each with affected_records >= 1: at most three logs and
\* at most one per check type.
C15_OneOpenLogPerCheckInOrder ==
    ValidateReturned =>
        /\ Validations
              = ExpectedLog("missing_balance", "High",
                            Cardinality(NullOrZero(cash_balances)))
                \o ExpectedLog("negative_cash", "Medium",
                               Cardinality(BelowZero(cash_balances)))
                \o ExpectedLog("duplicate", "High",
                               Cardinality(Repeats(cash_balances)))
        /\ Len(Validations) <= 3
        /\ \A k \in 1..Len(Validations) :
              /\ Validations[k].status = "Open"
              /\ Validations[k].affected_records >= 1
              /\ \A l \in 1..Len(Validations) :
                    Validations[l].check_type = Validations[k].check_type => l = k

\* A run has returned the three logs, in the order of the checks.
C15_Witness ==
    /\ ValidateReturned
    /\ Len(Validations) = 3
    /\ Validations[1].check_type = "missing_balance"
    /\ Validations[2].check_type = "negative_cash"
    /\ Validations[3].check_type = "duplicate"

(***************************************************************************)
(* The contracts of the positions, for the snapshot cash_balances of the   *)
(* position specification.                                                 *)
(***************************************************************************)
\* The global position has answered request t without an error.
GlobalReturned(t) ==
    /\ pc[t] = "done"
    /\ resp[t].op = "get_global_position"
    /\ resp[t].status_code = 200

\* The regional position has answered request t, with a response or an error.
RegionalEnded(t) == pc[t] = "done" /\ resp[t].op = "get_regional_liquidity"

SnapshotRegions == {cash_balances[i].region : i \in 1..Len(cash_balances)}

\* The values of by_region added up, minus the total, in cents.
RegionsMinusTotal(r) ==
    SumCounts(r.by_region, DOMAIN r.by_region) - r.total_liquidity_usd

\* C16 as claimed: for every balance set the values of by_region of the
\* global position sum to the returned total, and by_region has exactly one
\* key per region of the records.
C16_RegionsSumToTotal ==
    \A t \in Tasks :
        GlobalReturned(t) =>
            /\ RegionsMinusTotal(resp[t]) = 0
            /\ DOMAIN resp[t].by_region = SnapshotRegions

\* C16 as amended: by_region has exactly one key per region of the records,
\* and its values, each rounded to cents on its own, sum to the returned
\* total within half a cent per region and half a cent for the total.
C16_RegionsSumToTotalRounded ==
    \A t \in Tasks :
        GlobalReturned(t) =>
            /\ 2 * RegionsMinusTotal(resp[t]) <= Cardinality(SnapshotRegions) + 1
            /\ 2 * RegionsMinusTotal(resp[t]) >= 0 - (Cardinality(SnapshotRegions) + 1)
            /\ DOMAIN resp[t].by_region = SnapshotRegions

\* A global position over two regions whose rounded values do not sum to
\* the rounded total.
C16_Witness ==
    /\ GlobalReturned(PositionTask)
    /\ Cardinality(SnapshotRegions) = 2
    /\ RegionsMinusTotal(resp[PositionTask]) /= 0

\* C17: on an empty balance set, and for the regional position without a
\* record of the region, the global and the regional position return a
\* result that is no error, with a total of 0, empty maps for every
\* breakdown and an account count of 0.
C17_EmptyPositionIsZero ==
    \A t \in Tasks :
        /\ (pc[t] = "done" /\ resp[t].op = "get_global_position"
                /\ cash_balances = <<>>)
              => /\ resp[t].status_code = 200
                 /\ resp[t].total_liquidity_usd = 0
                 /\ DOMAIN resp[t].by_region = {}
                 /\ DOMAIN resp[t].by_currency = {}
                 /\ resp[t].total_accounts = 0
        /\ (RegionalEnded(t) /\ resp[t].region \notin SnapshotRegions)
              => /\ resp[t].status_code = 200
                 /\ resp[t].total_usd = 0
                 /\ DOMAIN resp[t].entities = {}
                 /\ DOMAIN resp[t].currencies = {}
                 /\ "account_count" \in DOMAIN resp[t]
                 /\ resp[t].account_count = 0

(***************************************************************************)
(* The contracts of the pool status and of the pool calculation, for the   *)
(* pools and the snapshot of the pooling specification.                    *)
(***************************************************************************)
\* The pool status has been returned.
StatusReturned ==
    /\ pc[PoolingTask] = "done"
    /\ resp[PoolingTask].op = "get_cash_pool_status"
    /\ resp[PoolingTask].status_code = 200

\* The participant accounts of a pool that have a balance.
AccountsWithBalance(pool) ==
    {i \in 1..Len(pool.participant_accounts) :
        \E j \in 1..Len(cash_balances) :
            cash_balances[j].account_number = pool.participant_accounts[i]}

\* e hundredths of a percent is the nearest to with / max(1, n) * 100.
IsRoundedPercent(e, with, n) ==
    LET m     == IF n > 1 THEN n ELSE 1
        delta == e * m - with * 10000
    IN  2 * delta <= m /\ 2 * delta >= 0 - m

\* C18: for every pool and balance set the pool status has efficiency
\* min(100, participants_with_balance / max(1, number of participant
\* accounts) * 100), participants_with_balance being the number of the
\* pool's participant accounts that have a balance; the efficiency is within
\* [0, 100], it is 0 for a pool without participant accounts, and the state
\* is Active iff the participant count is above 0.
C18_PoolEfficiency ==
    StatusReturned =>
        /\ Len(resp[PoolingTask].pools) = Len(cash_pools)
        /\ \A k \in 1..Len(cash_pools) :
              LET entry == resp[PoolingTask].pools[k]
                  with  == Cardinality(AccountsWithBalance(cash_pools[k]))
                  n     == Len(cash_pools[k].participant_accounts)
              IN  /\ entry.efficiency >= 0
                  /\ entry.efficiency <= 10000
                  /\ IsRoundedPercent(entry.efficiency, with, n)
                  /\ n = 0 => entry.efficiency = 0
                  /\ entry.status = "Active" <=> entry.participants > 0

\* A pool calculation has returned with at least one participant balance.
PoolingReturned ==
    /\ pc[PoolingTask] = "done"
    /\ resp[PoolingTask].op = "calculate_cash_pooling"
    /\ resp[PoolingTask].status_code = 200
    /\ resp[PoolingTask].participants /= <<>>

Participants == resp[PoolingTask].participants

RECURSIVE SumVariance(_)
SumVariance(ps) ==
    IF ps = <<>> THEN 0 ELSE ps[1].variance_from_avg + SumVariance(Tail(ps))

RECURSIVE SumBalance(_)
SumBalance(ps) ==
    IF ps = <<>> THEN 0 ELSE ps[1].balance_usd + SumBalance(Tail(ps))

\* C19 as claimed: for any pool calculation with at least one participant
\* balance, the variance_from_avg values of the participants sum to 0.
C19_VariancesSumToZero ==
    PoolingReturned => SumVariance(Participants) = 0

\* C19 as amended: the variance_from_avg values, each rounded to cents, sum
\* to 0 within half a cent per participant.
C19_VariancesSumToZeroRounded ==
    PoolingReturned =>
        /\ 2 * SumVariance(Participants) <= Len(Participants)
        /\ 2 * SumVariance(Participants) >= 0 - Len(Participants)

\* A calculation over three balances whose rounded variances do not sum
\* to 0.
C19_Witness ==
    /\ PoolingReturned
    /\ Len(Participants) = 3
    /\ SumVariance(Participants) /= 0

\* C20 as claimed: each participant's status is Surplus exactly when its
\* returned variance_from_avg is greater than 0 and Deficit otherwise.
C20_SurplusIffReturnedVariancePositive ==
    PoolingReturned =>
        \A k \in 1..Len(Participants) :
            /\ Participants[k].status \in {"Surplus", "Deficit"}
            /\ Participants[k].status = "Surplus"
                  <=> Participants[k].variance_from_avg > 0

\* C20 as amended: each participant's status is Surplus exactly when its
\* balance_usd is greater than the average balance, before any rounding,
\* and Deficit otherwise, a balance equal to the average included.
C20_SurplusIffAboveAverage ==
    PoolingReturned =>
        \A k \in 1..Len(Participants) :
            /\ Participants[k].status \in {"Surplus", "Deficit"}
            /\ Participants[k].status = "Surplus"
                  <=> Len(Participants) * Participants[k].balance_usd
                          > SumBalance(Participants)

\* A Surplus participant whose returned variance_from_avg is 0.
C20_Witness ==
    /\ PoolingReturned
    /\ \E k \in 1..Len(Participants) :
          /\ Participants[k].status = "Surplus"
          /\ Participants[k].variance_from_avg = 0

(***************************************************************************)
(* The frame of the computation entry points.                              *)
(***************************************************************************)
\* C21: no step of a computation entry point (global position, regional
\* position, pool status, pool calculation, netting run, validation run,
\* validation report, netting results, analytics summary) adds, removes or
\* changes a cash balance, a pool or a rate: the three collections are the
\* same after the step as before it, whether the call succeeds or fails.
C21_ComputationKeepsRecords ==
    [][/\ cash_balances' = cash_balances
       /\ cash_pools' = cash_pools
       /\ fx_rates' = fx_rates]_vars

\* A validation run has failed after a netting run stored its results, with
\* balances, pools and rates on record.
C21_Witness ==
    /\ pc[ComputeTask] = "done"
    /\ resp[ComputeTask].op = "run_validation"
    /\ resp[ComputeTask].status_code = 500
    /\ netting_results /= <<>>
    /\ cash_balances /= <<>>
    /\ cash_pools /= <<>>
    /\ fx_rates /= <<>>

(***************************************************************************)
(* The partition of a netting run.                                         *)
(***************************************************************************)
\* The entity codes of a sequence of items [entity, total].
EntitiesOf(items) == {items[i].entity : i \in 1..Len(items)}

\* The entities named by a transaction of txs.
Transacting(txs) ==
    {txs[k].from_entity : k \in 1..Len(txs)} \cup {txs[k].to_entity : k \in 1..Len(txs)}

\* C22: in every netting run, an entity whose total equals the average
\* exactly is in neither the surplus nor the deficit set and appears in no
\* transaction; every emitted transaction has a from_entity whose total is
\* strictly above the average and a to_entity whose total is strictly below
\* it, so the two differ; a snapshot with a single entity, or with all
\* entity totals equal, emits nothing.
C22_AtAverageExcluded ==
    RunReturned =>
        LET eb   == entity_balances(cash_balances)
            info == EntityInfo(cash_balances)
            n    == Cardinality(info)
            sum  == SumUsd(cash_balances)
            txs  == Returned
        IN  /\ \A x \in info :
                  (n * x.total = sum) =>
                      /\ x.entity \notin EntitiesOf(surplus_entities(eb))
                      /\ x.entity \notin EntitiesOf(deficit_entities(eb))
                      /\ x.entity \notin Transacting(txs)
            /\ \A k \in 1..Len(txs) :
                  /\ n * EntityTotal(cash_balances, txs[k].from_entity) > sum
                  /\ n * EntityTotal(cash_balances, txs[k].to_entity) < sum
                  /\ txs[k].from_entity /= txs[k].to_entity
            /\ (n = 1 \/ \A x, y \in info : x.total = y.total) => txs = <<>>

\* A run over three entities, one of them exactly at the average, has
\* emitted its one transaction between the other two.
C22_Witness ==
    /\ RunReturned
    /\ Len(Returned) = 1
    /\ Cardinality(EntityInfo(cash_balances)) = 3
    /\ \E x \in EntityInfo(cash_balances) : 3 * x.total = SumUsd(cash_balances)

(***************************************************************************)
(* The view of a computation.  In SpecSnapshot the balances only grow by   *)
(* imports and a single writer runs the netting, so every state the        *)
(* database has been in holds a prefix of the present cash_balances and    *)
(* either no netting result or the results of a run over a prefix of that  *)
(* prefix; pools and validation logs do not change.                        *)
(***************************************************************************)
Prefixes(s) == {Take(s, k) : k \in 0..Len(s)}

\* The transactions a run stores for the snapshot bals.
StoredBy(bals) ==
    IF bals = <<>> THEN <<>> ELSE netting_transactions(entity_balances(bals))

\* The pairs <<balances, netting results>> the database can have held.
PointsInTime ==
    UNION {{<<P, N>> : N \in {<<>>} \cup {StoredBy(Q) : Q \in Prefixes(P)}} :
              P \in Prefixes(cash_balances)}

\* The status of all pools computed from the one view bals.
StatusOfView(bals) ==
    pool_status_response(cash_pools,
        [i \in 1..Len(cash_pools) |->
            pool_status_entry(cash_pools[i],
                balances_of_accounts(bals, cash_pools[i].participant_accounts))])

\* C23: each computation works on one consistent point-in-time view of the
\* records: with balances imported concurrently, a get_cash_pool_status
\* response is the status of all pools over one state of the balance
\* collection, and an analytics summary is the summary of the collections as
\* they were together at one state.
C23_OnePointInTimeView ==
    LET r == resp[SnapshotReader]
    IN  pc[SnapshotReader] = "done" =>
            /\ r.op = "get_cash_pool_status" =>
                  \E P \in Prefixes(cash_balances) : r = StatusOfView(P)
            /\ r.op = "get_analytics_summary" =>
                  \E v \in PointsInTime :
                      r = analytics_summary_response(v[1], cash_pools, v[2],
                                                     validation_logs)

(***************************************************************************)
(* The amounts a netting run moves per entity.                             *)
(***************************************************************************)
\* The total amount of the transactions of txs out of, and into, entity e.
EmittedOutOf(txs, e) == SumAmount(SelectSeq(txs, LAMBDA x : x.from_entity = e))
EmittedInto(txs, e) == SumAmount(SelectSeq(txs, LAMBDA x : x.to_entity = e))

\* C24: in any netting run the total amount emitted out of a surplus entity
\* never exceeds its excess over the average, and the total amount emitted
\* into a deficit entity never exceeds its shortfall below the average:
\* applying all the transactions of a run moves no surplus entity below the
\* average and no deficit entity above it, though an entity may appear in
\* several pairs.
C24_EmittedWithinGap ==
    RunReturned =>
        LET info == EntityInfo(cash_balances)
            n    == Cardinality(info)
            sum  == SumUsd(cash_balances)
            txs  == Returned
        IN  \A x \in info :
                /\ EmittedOutOf(txs, x.entity) > 0 =>
                      n * (x.total - EmittedOutOf(txs, x.entity)) >= sum
                /\ EmittedInto(txs, x.entity) > 0 =>
                      n * (x.total + EmittedInto(txs, x.entity)) <= sum
                /\ (n * x.total <= sum) => EmittedOutOf(txs, x.entity) = 0
                /\ (n * x.total >= sum) => EmittedInto(txs, x.entity) = 0

\* A run has emitted three transactions out of one surplus entity.
C24_Witness ==
    /\ RunReturned
    /\ \E k \in 1..Len(Returned) :
          Len(SelectSeq(Returned,
                        LAMBDA x : x.from_entity = Returned[k].from_entity)) = 3

(***************************************************************************)
(* The netting results across runs.                                        *)
(***************************************************************************)
\* C25: a netting run that ends in an error leaves the stored netting
\* results exactly as they were before the run started: a failed run does
\* not erase the results of the previous run.
C25_FailedRunKeepsResults ==
    [][(/\ pc[RerunTask] = "netting_find"
        /\ pc'[RerunTask] = "done"
        /\ resp'[RerunTask].status_code = 500)
          => netting_results' = loc[RerunTask].before]_vars

\* The transactions of the two runs agree in from_entity, to_entity, amount
\* and currency, and their totals agree.
SameTransactions(t, u) ==
    /\ without_status(resp[t].transactions) = without_status(resp[u].transactions)
    /\ resp[t].total_netted_usd = resp[u].total_netted_usd
    /\ resp[t].total_transactions = resp[u].total_transactions

\* The two runs carry the same date, in the response and in each transaction.
SameDate(t, u) ==
    /\ resp[t].netting_date = resp[u].netting_date
    /\ \A k \in 1..Len(resp[t].transactions) :
          k <= Len(resp[u].transactions) =>
              resp[t].transactions[k].netting_date
                  = resp[u].transactions[k].netting_date

OfRegion(r) == SelectSeq(cash_balances, LAMBDA b : b.region = r)

\* The global position and every regional position of the snapshot answer
\* without an error, and the regional position has answered request t for a
\* region of the records.
PositionsReturned(t) ==
    /\ RegionalEnded(t)
    /\ resp[t].status_code = 200
    /\ resp[t].region \in SnapshotRegions
    /\ ~local_unusable(cash_balances)

\* The values of entities added up, minus total_usd, in cents.
EntitiesMinusTotal(r) == SumCounts(r.entities, DOMAIN r.entities) - r.total_usd

\* The regional total is the region's value in the global position, and
\* the account counts of the regions add up to total_accounts.
RegionalMatchesGlobal(t) ==
    LET global == global_position_response(cash_balances)
        count  == [r \in SnapshotRegions |->
                      regional_liquidity_response(r, OfRegion(r)).account_count]
    IN  /\ resp[t].total_usd = global.by_region[resp[t].region]
        /\ SumCounts(count, SnapshotRegions) = global.total_accounts

\* C27 as claimed: on the same balance snapshot, for every region r of the
\* records, the regional position's total_usd for r equals the global
\* position's by_region[r] and equals the sum of the regional position's
\* per-entity totals, and the regional account counts over all regions sum
\* to the global total_accounts.
C27_RegionalEqualsGlobal ==
    \A t \in Tasks :
        PositionsReturned(t) =>
            /\ RegionalMatchesGlobal(t)
            /\ EntitiesMinusTotal(resp[t]) = 0

\* C27 as amended: the same, the per-entity totals, each rounded to cents on
\* its own, summing to total_usd within half a cent per entity and half a
\* cent for the total.
C27_RegionalEqualsGlobalRounded ==
    \A t \in Tasks :
        PositionsReturned(t) =>
            /\ RegionalMatchesGlobal(t)
            /\ 2 * EntitiesMinusTotal(resp[t])
                   <= Cardinality(DOMAIN resp[t].entities) + 1
            /\ 2 * EntitiesMinusTotal(resp[t])
                   >= 0 - (Cardinality(DOMAIN resp[t].entities) + 1)

\* A regional position over two entities whose rounded per-entity totals do
\* not sum to the rounded total.
C27_Witness ==
    /\ PositionsReturned(PositionTask)
    /\ Cardinality(DOMAIN resp[PositionTask].entities) = 2
    /\ EntitiesMinusTotal(resp[PositionTask]) /= 0

====
